---- MODULE Spec2Model ----
(***************************************************************************)
(* CAN viewer: PCANInterface (can_interface.py), DBCLoader (dbc_loader.py) *)
(* and the MainWindow frame pipeline (gui.py).                             *)
(*                                                                         *)
(* Threads: the main (GUI) thread, which runs every handler and every      *)
(* PCANInterface call, and the reader threads started by start_receiving.  *)
(* The only blocking call of the main thread is Thread.join(timeout=2.0).  *)
(***************************************************************************)
EXTENDS Integers, Sequences, FiniteSets, TLC

\* ------------------------------------------------------------------ bounds
MaxBuses == 2     \* can.Bus objects opened in one run
MaxThreads == 2   \* reader Threads started in one run
MaxFrames == 2    \* frames taken from the wire in one run

\* ------------------------------------------------------------------ values
NoBus == 0        \* self.bus = None
NoThread == 0     \* self.receive_thread = None
NoCallback == "None"

Ids == {1, 2}
\* the frames the wire carries: every payload for identifier 1, one payload for identifier 2
Frames == {<<1, << >>>>, <<1, <<1>>>>, <<1, <<2>>>>, <<2, <<1>>>>}
\* callbacks of a caller other than MainWindow
Callbacks == {"callback_a", "callback_b"}

\* Optional[dict]: None, or a mapping held as a set of <<signal, value>> pairs.
None == [some |-> FALSE, fields |-> {}]
Some(f) == [some |-> TRUE, fields |-> f]

\* Python truthiness of an Optional[dict]: None and {} are both falsy.
Truthy(d) == d.some /\ d.fields # {}

VARIABLES
    can_interface,          \* PCANInterface: bus, is_connected, receive_thread, stop_event, message_callback
    buses,                  \* the can.Bus objects opened so far: "open" or "closed" (after shutdown)
    threads,                \* the reader Threads started so far: position in _receive_loop
    received,               \* frames taken from the wire so far
    queue,                  \* queued message_received emissions waiting for the GUI thread
    main,                   \* the main thread: idle, blocked in join, or inside on_can_message_received
    db,                     \* DBCLoader.db
    selected_message_ids,   \* MainWindow.selected_message_ids
    message_metadata,       \* MainWindow.message_metadata
    display,                \* the entries last rendered into data_display
    widgets,                \* update_timer active, connect_button / dbc_button enabled
    now,                    \* last reading of time.time()
    last,                   \* the main-thread operation that ran last, with what it saw (history variable)
    committed,              \* per identifier, the MessageState triple left by the last whole handler run (history variable)
    accepted                \* per identifier, the frames handled while it was selected (history variable)

vars == <<can_interface, buses, threads, received, queue, main, db, selected_message_ids,
          message_metadata, display, widgets, now, last, committed, accepted>>

ifaceVars == <<can_interface, buses, threads>>
guiVars == <<db, selected_message_ids, message_metadata, display, widgets>>

\* ------------------------------------------------------------ history record
\* result is what the call returned to its caller: "None", "True" or "False"
LastNone == [op |-> "init", id |-> 0, flag |-> FALSE, arg |-> "None", result |-> "None"]
Returned(b) == IF b THEN "True" ELSE "False"
Did(name) == [LastNone EXCEPT !.op = name]
DidFlag(name, f) == [LastNone EXCEPT !.op = name, !.flag = f]
DidFrame(name, id) == [LastNone EXCEPT !.op = name, !.id = id]

\* ------------------------------------------------------------ main thread
\* a handler at its decode call also remembers the entry it found (history fields)
Idle == [pc |-> "idle", op |-> "none", id |-> 0, data |-> << >>, found |-> << >>]
Joining(op) == [Idle EXCEPT !.pc = "join", !.op = op]
Handling(id, data, found) ==
    [pc |-> "decode", op |-> "on_can_message_received", id |-> id, data |-> data, found |-> found]

\* ------------------------------------------------------------ PCANInterface
\* __init__
InitInterface ==
    [bus |-> NoBus, is_connected |-> FALSE, receive_thread |-> NoThread,
     stop_event |-> FALSE, message_callback |-> NoCallback]

\* connect: can.Bus(...) returned bus b
connect_ok(ci, b) == [ci EXCEPT !.bus = b, !.is_connected = TRUE]

\* the flag set although no bus was opened
connect_failed_FlagSet(ci) == [ci EXCEPT !.is_connected = TRUE]

\* connect: can.Bus(...) raised
connect_failed(ci) == [ci EXCEPT !.is_connected = FALSE]

\* the test for a registered thread left out
start_receiving_returns_Disconnected(ci) == ~ci.is_connected

\* start_receiving: the early return
start_receiving_returns(ci) == ~ci.is_connected \/ ci.receive_thread # NoThread

\* stop_event.clear() left out
start_receiving_starts_NoClear(ci, cb, t) ==
    [ci EXCEPT !.message_callback = cb, !.receive_thread = t]

\* start_receiving: the assignments after the early return, t the new Thread
start_receiving_starts(ci, cb, t) ==
    [ci EXCEPT !.message_callback = cb, !.stop_event = FALSE, !.receive_thread = t]

start_receiving(ci, cb, t) ==
    IF start_receiving_returns(ci) THEN ci ELSE start_receiving_starts(ci, cb, t)

\* Thread(target=self._receive_loop).start(): the loop is about to test its condition
NewThread(ci) == [pc |-> "while", on |-> ci.bus]

start_receiving_threads(ci, ths) ==
    IF start_receiving_returns(ci) THEN ths ELSE Append(ths, NewThread(ci))

\* stop_receiving: self.stop_event.set()
stop_receiving_signal(ci) == [ci EXCEPT !.stop_event = TRUE]

\* stop_receiving: self.receive_thread = None, after join returned
stop_receiving_done(ci) == [ci EXCEPT !.receive_thread = NoThread]

\* disconnect: self.bus.shutdown()
shutdown(bs, b) == IF b # NoBus THEN [bs EXCEPT ![b] = "closed"] ELSE bs

\* disconnect: self.bus = None; self.is_connected = False
disconnect_release(ci) == [ci EXCEPT !.bus = NoBus, !.is_connected = FALSE]

\* a join that returns at any moment, whatever the thread does
JoinMayReturn_AtAnyTime(t, timeout) == TRUE

\* join(timeout=2.0) returns when the thread has ended, or when the timeout expires
Ended(t) == threads[t].pc = "done"
Running(t) == threads[t].pc # "done"
JoinMayReturn(t, timeout) == IF timeout THEN Running(t) ELSE Ended(t)

\* the cache emptied with the connection
toggle_connection_metadata_Cleared(md) == [i \in {} |-> md]

\* toggle_connection: what either branch does to message_metadata (no statement names it)
toggle_connection_metadata(md) == md

\* toggle_connection: widget changes of the two branches
WidgetsConnected(w) == [w EXCEPT !.dbc_button = FALSE, !.timer = TRUE]
WidgetsDisconnected(w) == [w EXCEPT !.dbc_button = TRUE, !.timer = FALSE]

\* ---- the calls, made from the main thread ----
Connect(ok) ==
    /\ main.pc = "idle"
    /\ IF ok
       THEN /\ Len(buses) < MaxBuses
            /\ buses' = Append(buses, "open")
            /\ can_interface' = connect_ok(can_interface, Len(buses) + 1)
       ELSE /\ buses' = buses
            /\ can_interface' = connect_failed(can_interface)
    /\ last' = [DidFlag("connect", ok) EXCEPT !.result = Returned(ok)]
    /\ UNCHANGED <<threads, received, queue, main, guiVars, now, committed, accepted>>

StartReceiving(cb) ==
    /\ main.pc = "idle"
    /\ start_receiving_returns(can_interface) \/ Len(threads) < MaxThreads
    /\ can_interface' = start_receiving(can_interface, cb, Len(threads) + 1)
    /\ threads' = start_receiving_threads(can_interface, threads)
    /\ last' = [DidFlag("start_receiving", start_receiving_returns(can_interface)) EXCEPT !.arg = cb]
    /\ UNCHANGED <<buses, received, queue, main, guiVars, now, committed, accepted>>

\* stop_receiving up to the join; with no thread registered the whole call
StopReceiving ==
    /\ main.pc = "idle"
    /\ IF can_interface.receive_thread # NoThread
       THEN /\ can_interface' = stop_receiving_signal(can_interface)
            /\ main' = Joining("stop_receiving")
            /\ last' = Did("stop_receiving_join")
       ELSE /\ UNCHANGED <<can_interface, main>>
            /\ last' = DidFlag("stop_receiving", TRUE)
    /\ UNCHANGED <<buses, threads, received, queue, guiVars, now, committed, accepted>>

\* disconnect up to the join inside stop_receiving; with no thread registered the whole call
Disconnect ==
    /\ main.pc = "idle"
    /\ IF can_interface.receive_thread # NoThread
       THEN /\ can_interface' = stop_receiving_signal(can_interface)
            /\ main' = Joining("disconnect")
            /\ last' = Did("disconnect_join")
            /\ buses' = buses
       ELSE /\ buses' = shutdown(buses, can_interface.bus)
            /\ can_interface' = disconnect_release(can_interface)
            /\ main' = main
            /\ last' = Did("disconnect")
    /\ UNCHANGED <<threads, received, queue, guiVars, now, committed, accepted>>

\* join returns inside stop_receiving, and the caller (stop_receiving itself, disconnect,
\* or toggle_connection through disconnect) runs to its end
JoinReturn(timeout) ==
    /\ main.pc = "join"
    /\ JoinMayReturn(can_interface.receive_thread, timeout)
    /\ IF main.op = "stop_receiving"
       THEN /\ buses' = buses
            /\ can_interface' = stop_receiving_done(can_interface)
       ELSE /\ buses' = shutdown(buses, can_interface.bus)
            /\ can_interface' = disconnect_release(stop_receiving_done(can_interface))
    /\ widgets' = IF main.op = "toggle_connection" THEN WidgetsDisconnected(widgets) ELSE widgets
    /\ message_metadata' = IF main.op = "toggle_connection"
                           THEN toggle_connection_metadata(message_metadata)
                           ELSE message_metadata
    /\ main' = Idle
    /\ last' = [DidFlag(main.op, timeout) EXCEPT !.id = can_interface.receive_thread]
    /\ UNCHANGED <<threads, received, queue, db, selected_message_ids,
                   display, now, committed, accepted>>

\* ------------------------------------------------------------ send_message
\* "if not self.is_connected or not self.bus: return False"
send_message_refused(ci) == ~ci.is_connected \/ ci.bus = NoBus

\* what the try block can do: can.Message(...) raises (a payload it rejects), bus.send
\* raises, or the frame is sent
SendOutcomes == {"message_raises", "send_raises", "sent"}

\* a failed send tried once more
send_message_sends_Retried(ci, o) ==
    IF send_message_refused(ci) \/ o = "message_raises" THEN 0
    ELSE IF o = "send_raises" THEN 2 ELSE 1

\* the calls of self.bus.send made by one send_message
send_message_sends(ci, o) ==
    IF send_message_refused(ci) \/ o = "message_raises" THEN 0 ELSE 1

\* the value send_message returns
send_message(ci, o) == ~send_message_refused(ci) /\ o = "sent"

\* send_message: last.id is the number of bus.send calls it made, last.arg what the try
\* block did
SendMessage(o) ==
    /\ main.pc = "idle"
    /\ last' = [op |-> "send_message",
                id |-> send_message_sends(can_interface, o),
                flag |-> send_message_refused(can_interface),
                arg |-> IF send_message_refused(can_interface) THEN "None" ELSE o,
                result |-> Returned(send_message(can_interface, o))]
    /\ UNCHANGED <<ifaceVars, received, queue, main, guiVars, now, committed, accepted>>

\* ------------------------------------------------------------ _receive_loop
SetPc(t, pc) == [threads EXCEPT ![t].pc = pc]

\* the exception caught nowhere: the thread dies of it
AfterPass_Dies(t, r) == SetPc(t, IF r \in {"error", "callback_error"} THEN "done" ELSE "while")

\* the end of one pass: past the if, or through "except Exception as e: print(...)",
\* and back to the while
AfterPass(t, r) == SetPc(t, "while")

\* while not self.stop_event.is_set() and self.bus:
LoopContinues(ci) == ~ci.stop_event /\ ci.bus # NoBus

ReaderTestsLoop(t) ==
    /\ threads[t].pc = "while"
    /\ threads' = SetPc(t, IF LoopContinues(can_interface) THEN "recv" ELSE "done")
    /\ UNCHANGED <<can_interface, buses, received, queue, main, guiVars, now, last, committed, accepted>>

\* what one pass can do: recv returns None at the timeout, recv raises (always, when
\* self.bus has become None meanwhile: the AttributeError is caught like any other), recv
\* returns a frame of an open bus, or it returns a frame and the caller's callback raises
\* (can_message_callback only emits a signal)
RecvOutcomes(ci) ==
    IF ci.bus = NoBus THEN {"error"}
    ELSE {"none", "error"}
         \cup (IF received < MaxFrames THEN {"frame"} ELSE {})
         \cup (IF received < MaxFrames /\ ci.message_callback \in Callbacks
               THEN {"callback_error"} ELSE {})

\* self.message_callback(id, data): can_message_callback emits message_received, whose
\* connection to on_can_message_received is queued; any other callback is the caller's
Deliver(cb, q, frame) == IF cb = "can_message_callback" THEN Append(q, frame) ELSE q

\* one pass through the try block: recv, and the callback when a frame came
ReaderReceives(t) ==
    /\ threads[t].pc = "recv"
    /\ \E r \in RecvOutcomes(can_interface) :
         /\ IF r = "frame"
            THEN \E f \in Frames :
                   /\ received' = received + 1
                   /\ queue' = IF can_interface.message_callback # NoCallback
                               THEN Deliver(can_interface.message_callback, queue, f)
                               ELSE queue
            ELSE IF r = "callback_error"
            THEN /\ received' = received + 1
                 /\ queue' = queue
            ELSE UNCHANGED <<received, queue>>
         /\ threads' = AfterPass(t, r)
    /\ UNCHANGED <<can_interface, buses, main, guiVars, now, last, committed, accepted>>

Reader(t) ==
    \/ ReaderTestsLoop(t)
    \/ ReaderReceives(t)

\* ------------------------------------------------------------ DBCLoader
\* A loaded database is its set of messages; db = None behaves as the empty one in
\* every method below, so both are the empty set.
NoDb == {}
\* two DBC files: one defines both identifiers with a one-byte signal, the other only
\* identifier 2, as a message without signals
DbcA == {[frame_id |-> 1, length |-> 1, signals |-> {"speed"}],
         [frame_id |-> 2, length |-> 1, signals |-> {"speed"}]}
DbcB == {[frame_id |-> 2, length |-> 0, signals |-> {}]}
DbcFiles == {DbcA, DbcB}

get_messages(d) == d

HasMessage(d, id) == \E m \in d : m.frame_id = id

\* get_message_by_id: defined only when HasMessage (None otherwise)
get_message_by_id(d, id) == CHOOSE m \in d : m.frame_id = id

\* message.decode(data): every signal reads the first byte; a payload shorter than the
\* message raises
Decodes(m, data) == Len(data) >= m.length
DecodedFields(m, data) == {<<sig, data[1]>> : sig \in m.signals}

\* decode_message: None when db is None, the identifier is unknown or decode raises
decode_message(d, id, data) ==
    IF ~HasMessage(d, id) THEN None
    ELSE IF ~Decodes(get_message_by_id(d, id), data) THEN None
    ELSE Some(DecodedFields(get_message_by_id(d, id), data))

\* ------------------------------------------------------------ MainWindow
\* MessageMetadata.__init__
NewMetadata == [last_timestamp |-> 0, count |-> 0, decoded_data |-> None]
NoMetadata == [i \in {} |-> NewMetadata]
InitWidgets == [timer |-> FALSE, connect_button |-> FALSE, dbc_button |-> TRUE]

\* time.time() in on_can_message_received: logical time, one tick later than the last reading
HandlerClock(t) == t + 1

\* time.time() in update_live_data_display: no handler ran since the last reading
DisplayClock(t) == t

\* load_dbc_file, with the file picked and whether load_file succeeds
LoadDbc(file, ok) ==
    /\ main.pc = "idle"
    /\ widgets.dbc_button
    /\ IF ok
       THEN /\ db' = file
            /\ widgets' = [widgets EXCEPT !.connect_button = TRUE]
       ELSE UNCHANGED <<db, widgets>>
    /\ last' = Did("load_dbc_file")
    /\ UNCHANGED <<ifaceVars, received, queue, main, selected_message_ids,
                   message_metadata, display, now, committed, accepted>>

\* on_message_selection_changed
on_message_selection_changed(sel, id, checked) ==
    IF checked THEN sel \cup {id} ELSE sel \ {id}

\* the user flips the checkbox of a listed message (the list holds the loaded messages)
SelectionChanged(id) ==
    /\ main.pc = "idle"
    /\ HasMessage(get_messages(db), id)
    /\ selected_message_ids' =
           on_message_selection_changed(selected_message_ids, id, id \notin selected_message_ids)
    /\ last' = Did("on_message_selection_changed")
    /\ UNCHANGED <<ifaceVars, received, queue, main, db, message_metadata,
                   display, widgets, now, committed, accepted>>

\* toggle_connection; its disconnect branch runs up to the join inside stop_receiving
ToggleConnection(ok) ==
    /\ main.pc = "idle"
    /\ widgets.connect_button
    /\ IF ~can_interface.is_connected
       THEN /\ IF ok
               THEN /\ Len(buses) < MaxBuses
                    /\ Len(threads) < MaxThreads
                    /\ buses' = Append(buses, "open")
                    /\ can_interface' =
                         start_receiving(connect_ok(can_interface, Len(buses) + 1),
                                         "can_message_callback", Len(threads) + 1)
                    /\ threads' =
                         start_receiving_threads(connect_ok(can_interface, Len(buses) + 1), threads)
                    /\ widgets' = WidgetsConnected(widgets)
               ELSE /\ can_interface' = connect_failed(can_interface)
                    /\ UNCHANGED <<buses, threads, widgets>>
            /\ main' = main
            /\ last' = Did("toggle_connection")
       ELSE /\ ok
            /\ threads' = threads
            /\ IF can_interface.receive_thread # NoThread
               THEN /\ can_interface' = stop_receiving_signal(can_interface)
                    /\ main' = Joining("toggle_connection")
                    /\ last' = Did("toggle_connection")
                    /\ UNCHANGED <<buses, widgets>>
               ELSE /\ buses' = shutdown(buses, can_interface.bus)
                    /\ can_interface' = disconnect_release(can_interface)
                    /\ widgets' = WidgetsDisconnected(widgets)
                    /\ main' = main
                    /\ last' = Did("toggle_connection")
    /\ message_metadata' = toggle_connection_metadata(message_metadata)
    /\ UNCHANGED <<received, queue, db, selected_message_ids,
                   display, now, committed, accepted>>

\* the filter left out: every frame is handled
Dropped_Never(sel, id) == FALSE

\* on_can_message_received: "if message_id not in self.selected_message_ids: return"
Dropped(sel, id) == id \notin sel

\* the count left as it was
Touch_NoCount(md, id, t) ==
    [i \in DOMAIN md \cup {id} |->
        IF i = id
        THEN [(IF id \in DOMAIN md THEN md[id] ELSE NewMetadata) EXCEPT !.last_timestamp = t]
        ELSE md[i]]

\* on_can_message_received: create the entry if missing, then timestamp and count
Touch(md, id, t) ==
    [i \in DOMAIN md \cup {id} |->
        IF i = id
        THEN [(IF id \in DOMAIN md THEN md[id] ELSE NewMetadata)
                 EXCEPT !.last_timestamp = t, !.count = @ + 1]
        ELSE md[i]]

\* the result stored whatever it is
Store_Always(md, id, decoded) == [md EXCEPT ![id].decoded_data = decoded]

\* on_can_message_received: "if decoded: metadata.decoded_data = decoded"
Store(md, id, decoded) ==
    IF Truthy(decoded) THEN [md EXCEPT ![id].decoded_data = decoded] ELSE md

Triple(m) == <<m.count, m.last_timestamp, m.decoded_data>>

\* the entry of id before a handler run, if there is one
Found(md, id) == IF id \in DOMAIN md THEN <<md[id]>> ELSE << >>

\* on_can_message_received, dequeued by the event loop, up to the call of decode_message
HandlerBegins ==
    /\ main.pc = "idle"
    /\ queue # << >>
    /\ queue' = Tail(queue)
    /\ LET id == Head(queue)[1]
           data == Head(queue)[2]
       IN IF Dropped(selected_message_ids, id)
          THEN /\ last' = DidFrame("dropped", id)
               /\ UNCHANGED <<main, message_metadata, now>>
          ELSE /\ now' = HandlerClock(now)
               /\ message_metadata' = Touch(message_metadata, id, HandlerClock(now))
               /\ main' = Handling(id, data, Found(message_metadata, id))
               /\ last' = DidFrame("handling", id)
    /\ accepted' = IF Head(queue)[1] \in selected_message_ids
                   THEN [accepted EXCEPT ![Head(queue)[1]] = @ + 1]
                   ELSE accepted
    /\ UNCHANGED <<ifaceVars, received, db, selected_message_ids, display, widgets, committed>>

\* on_can_message_received from decode_message to its end
HandlerDecodes ==
    /\ main.pc = "decode"
    /\ LET decoded == decode_message(db, main.id, main.data)
       IN /\ message_metadata' = Store(message_metadata, main.id, decoded)
          /\ last' = DidFrame(IF decoded.some THEN "decoded" ELSE "undecoded", main.id)
    /\ committed' = [committed EXCEPT ![main.id] = Triple(message_metadata'[main.id])]
    /\ main' = Idle
    /\ UNCHANGED <<ifaceVars, received, queue, db, selected_message_ids, display, widgets, now, accepted>>

\* sorted(self.selected_message_ids)
RECURSIVE sorted(_)
sorted(S) ==
    IF S = {} THEN << >>
    ELSE LET least == CHOOSE x \in S : \A y \in S : x <= y
         IN <<least>> \o sorted(S \ {least})

RECURSIVE Reverse(_)
Reverse(q) == IF q = << >> THEN << >> ELSE Reverse(Tail(q)) \o <<Head(q)>>

\* the identifiers taken in descending order
DisplayOrder_Descending(sel) == Reverse(sorted(sel))

\* update_live_data_display: "for message_id in sorted(self.selected_message_ids)"
DisplayOrder(sel) == sorted(sel)

\* update_live_data_display: the condition under which a selected identifier is rendered
Rendered(md, d, id) ==
    /\ id \in DOMAIN md
    /\ HasMessage(d, id)
    /\ Truthy(md[id].decoded_data)

\* update_live_data_display: header and signal lines of one message
Entry(md, id, t) ==
    [id |-> id, count |-> md[id].count, time_since |-> t - md[id].last_timestamp,
     data |-> md[id].decoded_data.fields]

RECURSIVE output_lines(_, _, _, _)
output_lines(ids, md, d, t) ==
    IF ids = << >> THEN << >>
    ELSE (IF Rendered(md, d, Head(ids)) THEN <<Entry(md, Head(ids), t)>> ELSE << >>)
         \o output_lines(Tail(ids), md, d, t)

\* the timer slot run from a thread of its own, also while a handler is at its decode call
TimerMayFire_InsideHandler == main.pc \in {"idle", "decode"} /\ widgets.timer

\* the event loop runs a timer slot only between two handlers, never inside one
TimerMayFire == main.pc = "idle" /\ widgets.timer

\* update_live_data_display, run by update_timer
UpdateLiveDataDisplay ==
    /\ TimerMayFire
    /\ IF DOMAIN message_metadata = {}
       THEN /\ UNCHANGED <<display, now>>
            /\ last' = DidFlag("update_live_data_display", FALSE)
       ELSE /\ now' = DisplayClock(now)
            /\ display' = output_lines(DisplayOrder(selected_message_ids), message_metadata, db,
                                       DisplayClock(now))
            /\ last' = DidFlag("update_live_data_display", TRUE)
    /\ UNCHANGED <<ifaceVars, received, queue, main, db, selected_message_ids,
                   message_metadata, widgets, committed, accepted>>

Init ==
    /\ can_interface = InitInterface
    /\ buses = << >>
    /\ threads = << >>
    /\ received = 0
    /\ queue = << >>
    /\ main = Idle
    /\ db = NoDb
    /\ selected_message_ids = {}
    /\ message_metadata = NoMetadata
    /\ display = << >>
    /\ widgets = InitWidgets
    /\ now = 0
    /\ last = LastNone
    /\ committed = [i \in Ids |-> Triple(NewMetadata)]
    /\ accepted = [i \in Ids |-> 0]

\* PCANInterface driven by an arbitrary caller
NextApi ==
    \/ \E ok \in BOOLEAN : Connect(ok)
    \/ \E cb \in Callbacks : StartReceiving(cb)
    \/ StopReceiving
    \/ Disconnect
    \/ \E timeout \in BOOLEAN : JoinReturn(timeout)
    \/ \E o \in SendOutcomes : SendMessage(o)
    \/ \E t \in 1..Len(threads) : Reader(t)

SpecApi == Init /\ [][NextApi]_vars

\* the application: MainWindow drives PCANInterface through toggle_connection
Next ==
    \/ \E file \in DbcFiles, ok \in BOOLEAN : LoadDbc(file, ok)
    \/ \E id \in Ids : SelectionChanged(id)
    \/ \E ok \in BOOLEAN : ToggleConnection(ok)
    \/ \E timeout \in BOOLEAN : JoinReturn(timeout)
    \/ \E t \in 1..Len(threads) : Reader(t)
    \/ HandlerBegins
    \/ HandlerDecodes
    \/ UpdateLiveDataDisplay

Spec == Init /\ [][Next]_vars

\* ==================================================================== claims
PrevCount(m) == IF m.found = << >> THEN 0 ELSE m.found[1].count
PrevData(m) == IF m.found = << >> THEN None ELSE m.found[1].decoded_data
PrevTimestamp(m) == IF m.found = << >> THEN 0 ELSE m.found[1].last_timestamp

\* the step in which on_can_message_received returns after its decode call
HandlerReturns == main.pc = "decode" /\ main'.pc = "idle"

\* the step in which on_can_message_received takes a frame of an identifier not selected
DropsFrame ==
    /\ main.pc = "idle"
    /\ queue # << >>
    /\ queue' = Tail(queue)
    /\ Head(queue)[1] \notin selected_message_ids

DisplayedIds == [k \in 1..Len(display) |-> display[k].id]

\* C1: whenever the handler returns from a frame of a selected identifier that the decoder
\* decoded (to any mapping, the empty one included), the entry's count is one more than
\* before the frame (1 for a new entry) and its decoded_data is the decoder's result.
C1_DecodedFrameIsStored ==
    [][(HandlerReturns /\ decode_message(db, main.id, main.data).some) =>
         /\ main.id \in DOMAIN message_metadata'
         /\ message_metadata'[main.id].count = PrevCount(main) + 1
         /\ message_metadata'[main.id].decoded_data = decode_message(db, main.id, main.data)]_vars

\* C2: a frame whose identifier is not selected when it is handled leaves message_metadata
\* as it is, and every identifier with an entry had a frame handled while it was selected.
C2_UnselectedFramesLeaveCache ==
    /\ [][DropsFrame => message_metadata' = message_metadata]_vars
    /\ [](\A id \in DOMAIN message_metadata : accepted[id] >= 1)

\* C2 witness: a frame was dropped while the cache holds an entry of another identifier
C2_Witness ==
    /\ last.op = "dropped"
    /\ last.id \notin DOMAIN message_metadata
    /\ DOMAIN message_metadata # {}

\* C3: when the handler returns from a frame of a selected identifier that the decoder
\* could not decode, the entry exists with its count one more than before, its timestamp
\* the handler's clock reading, and decoded_data what it was before (None for a new entry);
\* the main thread is idle again and no reader thread is touched.
C3_UndecodedFrameCounts ==
    [][(HandlerReturns /\ ~decode_message(db, main.id, main.data).some) =>
         /\ main.id \in DOMAIN message_metadata'
         /\ message_metadata'[main.id].count = PrevCount(main) + 1
         /\ message_metadata'[main.id].last_timestamp = now
         /\ message_metadata'[main.id].last_timestamp > PrevTimestamp(main)
         /\ message_metadata'[main.id].decoded_data = PrevData(main)
         /\ main' = Idle
         /\ threads' = threads
         /\ queue' = queue]_vars

\* C3 witness: an undecodable frame was handled for an identifier that already had
\* decoded fields, and they are still there
C3_Witness ==
    /\ last.op = "undecoded"
    /\ message_metadata[last.id].count = 2
    /\ message_metadata[last.id].decoded_data.some

\* C3 witness of the first-frame case: the entry exists with count 1 and no decoded fields
C3_WitnessFirstFrame ==
    /\ last.op = "undecoded"
    /\ message_metadata[last.id].count = 1
    /\ message_metadata[last.id].decoded_data = None

\* the display right after update_live_data_display ran
JustDisplayed == last.op = "update_live_data_display"

\* C4 as claimed: right after a build the display lists, in ascending order, exactly the
\* selected identifiers that have an entry with decoded fields.
C4_SnapshotListsSelectedDecoded ==
    JustDisplayed =>
        DisplayedIds = sorted({id \in selected_message_ids :
                                  /\ id \in DOMAIN message_metadata
                                  /\ message_metadata[id].decoded_data.some})

\* C4 as amended: right after a build the display lists, in ascending order and each once,
\* exactly the selected identifiers that have an entry with decoded fields and that the
\* loaded database defines.
C4_SnapshotListsSelectedDecodedKnown ==
    JustDisplayed =>
        /\ DisplayedIds = sorted({id \in selected_message_ids :
                                     /\ id \in DOMAIN message_metadata
                                     /\ message_metadata[id].decoded_data.some
                                     /\ HasMessage(db, id)})
        /\ \A j, k \in 1..Len(display) : j < k => display[j].id < display[k].id

\* C4 witness: a build listed two identifiers
C4_Witness == JustDisplayed /\ Len(display) = 2

\* C4 witness: a build left out a deselected identifier that has decoded fields
C4_WitnessDeselected ==
    /\ JustDisplayed
    /\ Len(display) = 1
    /\ \E id \in DOMAIN message_metadata :
         /\ id \notin selected_message_ids
         /\ message_metadata[id].decoded_data.some

\* C5: the count of an identifier is the number of its frames handled while it was
\* selected, in every state: nothing else changes it.
C5_CountIsAcceptedFrames ==
    \A id \in Ids :
        IF id \in DOMAIN message_metadata
        THEN message_metadata[id].count = accepted[id]
        ELSE accepted[id] = 0

\* C5 witness: a count of 2 seen after a build, a selection change and a disconnect
C5_Witness ==
    /\ \E id \in DOMAIN message_metadata : message_metadata[id].count = 2
    /\ display # << >>
    /\ selected_message_ids = {}
    /\ ~can_interface.is_connected
    /\ last.op = "toggle_connection"

\* C6: every entry of a display just built shows the count, timestamp and fields that one
\* whole handler run left for its identifier (the last one).
C6_SnapshotNotTorn ==
    (JustDisplayed /\ last.flag) =>
        \A k \in 1..Len(display) :
            <<display[k].count, now - display[k].time_since, Some(display[k].data)>>
                = committed[display[k].id]

\* C6 witness: a build showed an identifier after its second whole update
C6_Witness ==
    /\ JustDisplayed
    /\ \E k \in 1..Len(display) : display[k].count = 2 /\ display[k].data = {<<"speed", 2>>}

\* the reader threads whose _receive_loop has not returned
RunningReaders == {t \in 1..Len(threads) : Running(t)}

\* a step of the main thread: no reader thread moves
MainThreadStep == \A t \in 1..Len(threads) : threads'[t] = threads[t]

\* a call of start_receiving
StartReceivingCalled == MainThreadStep /\ last'.op = "start_receiving" /\ main.pc = "idle"

\* C7: start_receiving called while a thread is registered changes nothing: no thread is
\* started, the callback and the stop event stay as they are.
C7_StartReceivingTwiceIsNoOp ==
    [][(StartReceivingCalled /\ can_interface.receive_thread # NoThread) =>
         /\ can_interface' = can_interface
         /\ threads' = threads
         /\ UNCHANGED <<buses, received, queue, main>>]_vars

\* C7 witness: start_receiving returned early with another callback than the registered
\* one, the reader running
C7_Witness ==
    /\ last.op = "start_receiving"
    /\ last.flag
    /\ can_interface.receive_thread # NoThread
    /\ can_interface.is_connected
    /\ last.arg # can_interface.message_callback
    /\ RunningReaders = {can_interface.receive_thread}

\* C8: at most one _receive_loop is running, in every state.
C8_AtMostOneReader == Cardinality(RunningReaders) <= 1

\* the step in which disconnect lets go of the bus
ReleasesBus == can_interface.bus # NoBus /\ can_interface'.bus = NoBus

\* C9: disconnect lets go of the bus only once the registered reader (if any) has ended,
\* and when it has returned is_connected is false, bus is None and receive_thread is None.
C9_DisconnectStopsReaderThenReleases ==
    /\ [][ReleasesBus =>
            (can_interface.receive_thread # NoThread => Ended(can_interface.receive_thread))]_vars
    /\ [](last.op \in {"disconnect"} =>
            /\ ~can_interface.is_connected
            /\ can_interface.bus = NoBus
            /\ can_interface.receive_thread = NoThread)

\* C10: no reader thread is running whose bus has been shut down.
C10_NoReaderOnReleasedBus ==
    \A t \in RunningReaders : buses[threads[t].on] = "open"

\* stop_receiving has returned after its join
StopReceivingReturned == last.op = "stop_receiving" /\ last.id # NoThread

\* C11: when the join inside stop_receiving expired with the reader still running,
\* stop_receiving reports it to its caller (a result other than its plain None) and the
\* reader stays registered: the session does not go on as if the reader had stopped.
C11_JoinTimeoutIsSurfaced ==
    (StopReceivingReturned /\ last.flag) =>
        /\ last.result # "None"
        /\ can_interface.receive_thread = last.id

\* stop_receiving has set the stop event for thread t: the main thread is blocked in the
\* join that follows the set, or t is registered no longer (receive_thread is cleared
\* only by stop_receiving, after the set)
ToldToStop(t) == main.pc = "join" \/ can_interface.receive_thread # t

\* C12: a reader for which stop_receiving has set the stop event leaves the loop at its
\* next test of the loop condition: it starts no further receive call.
C12_SignalledReaderStops ==
    [][\A t \in 1..Len(threads) :
         (ToldToStop(t) /\ threads[t].pc = "while" /\ threads'[t].pc # "while") =>
             threads'[t].pc = "done"]_vars

\* C13: a reader thread ends only at its loop test, and only when the stop event is set
\* or bus is None; a pass through the try block, whatever recv or the callback did
\* (None at the timeout, an exception, a frame), leads back to the loop test, which
\* starts another receive call unless the stop event is set or bus is None.
C13_LoopSurvivesDataErrors ==
    [][\A t \in 1..Len(threads) :
         /\ (Running(t) /\ threads'[t].pc = "done") =>
                (threads[t].pc = "while" /\ ~LoopContinues(can_interface))
         /\ (threads[t].pc = "recv" /\ threads'[t] # threads[t]) => threads'[t].pc = "while"
         /\ (threads[t].pc = "while" /\ threads'[t] # threads[t] /\ LoopContinues(can_interface)) =>
                threads'[t].pc = "recv"]_vars

\* C13 witness: every frame of the run has been taken by the one reader ever started,
\* some handed to a caller's callback (which may raise), and the reader is inside
\* a further receive call on a bus that is None by now, so that this call raises too
C13_Witness ==
    /\ Len(threads) = 1
    /\ received = MaxFrames
    /\ threads[1].pc = "recv"
    /\ can_interface.message_callback \in Callbacks
    /\ can_interface.bus = NoBus

\* the session state Disconnected
Disconnected(ci) == ~ci.is_connected /\ ci.bus = NoBus /\ ci.receive_thread = NoThread

\* a call of connect
ConnectCalled == MainThreadStep /\ last'.op = "connect" /\ main.pc = "idle"

\* C14: connect called while Disconnected, when the transport opens, leaves is_connected
\* true and bus an open bus and returns True; when the transport fails it leaves the
\* session Disconnected (is_connected false, bus None, no reader), opens nothing and
\* returns False.
C14_ConnectFromDisconnected ==
    [][(ConnectCalled /\ Disconnected(can_interface)) =>
         IF last'.flag
         THEN /\ can_interface'.is_connected
              /\ can_interface'.bus # NoBus
              /\ buses'[can_interface'.bus] = "open"
              /\ can_interface'.receive_thread = NoThread
              /\ last'.result = "True"
         ELSE /\ Disconnected(can_interface')
              /\ buses' = buses
              /\ threads' = threads
              /\ last'.result = "False"]_vars

\* C14 witness: after a session that was connected and released, a connect has failed
\* and the session is Disconnected
C14_Witness ==
    /\ last.op = "connect"
    /\ last.result = "False"
    /\ Disconnected(can_interface)
    /\ Len(buses) = 1
    /\ buses[1] = "closed"

\* a call of stop_receiving that finds no thread registered
StopReceivingCalledIdle ==
    /\ MainThreadStep
    /\ main.pc = "idle"
    /\ last'.op = "stop_receiving"
    /\ can_interface.receive_thread = NoThread

\* C15: start_receiving while not connected, stop_receiving while no reader is
\* registered, and connect while connected each leave is_connected, bus, receive_thread,
\* the stop event and the callback as they are, open no bus and start no thread; such
\* a connect does not return True.
C15_InvalidCallsAreNoOps ==
    [][/\ (StartReceivingCalled /\ ~can_interface.is_connected) =>
              (can_interface' = can_interface /\ threads' = threads /\ buses' = buses)
       /\ StopReceivingCalledIdle =>
              (can_interface' = can_interface /\ threads' = threads /\ buses' = buses)
       /\ (ConnectCalled /\ can_interface.is_connected) =>
              /\ can_interface' = can_interface
              /\ threads' = threads
              /\ buses' = buses
              /\ last'.result # "True"]_vars

\* the step in which stop_receiving, called on its own, returns from its join
StopReceivingReturns == main.pc = "join" /\ main.op = "stop_receiving" /\ main'.pc = "idle"

\* C16: stop_receiving called while connected with a reader registered returns with
\* is_connected true, the same open bus held and no reader registered; a start_receiving
\* that follows registers a new thread and clears the stop event, so that the new thread
\* passes its first loop test.
C16_StopThenStartAgain ==
    [][/\ (StopReceivingReturns /\ can_interface.is_connected /\ can_interface.bus # NoBus) =>
              /\ can_interface.stop_event
              /\ can_interface'.is_connected
              /\ can_interface'.bus = can_interface.bus
              /\ buses'[can_interface'.bus] = "open"
              /\ can_interface'.receive_thread = NoThread
       /\ (StartReceivingCalled /\ StopReceivingReturned
              /\ can_interface.is_connected /\ can_interface.bus # NoBus) =>
              /\ ~last'.flag
              /\ Len(threads') = Len(threads) + 1
              /\ can_interface'.receive_thread = Len(threads')
              /\ threads'[Len(threads')].pc = "while"
              /\ LoopContinues(can_interface')]_vars

\* C16 witness: the first reader was stopped and has ended, start_receiving was called
\* again, and the second reader is inside a receive call
C16_Witness ==
    /\ last.op = "start_receiving"
    /\ ~last.flag
    /\ Len(threads) = 2
    /\ Ended(1)
    /\ can_interface.receive_thread = 2
    /\ threads[2].pc = "recv"
    /\ can_interface.is_connected

\* a step of toggle_connection: its call, or its return from the join inside disconnect
ToggleConnectionStep ==
    /\ MainThreadStep
    /\ main.pc \in {"idle", "join"}
    /\ main'.pc \in {"idle", "join"}
    /\ last'.op = "toggle_connection"

\* the step in which on_can_message_received takes a frame of a selected identifier
TakesFrame == main.pc = "idle" /\ main'.pc = "decode"

\* C17: connecting and disconnecting through toggle_connection leave
\* selected_message_ids and every entry of message_metadata (count, last_timestamp,
\* decoded_data) as they are, and a frame handled at any time, after a reconnect
\* included, counts on from the entry's count.
C17_ReconnectKeepsCacheAndSelection ==
    [][/\ ToggleConnectionStep =>
              /\ selected_message_ids' = selected_message_ids
              /\ message_metadata' = message_metadata
       /\ TakesFrame =>
              message_metadata'[main'.id].count = PrevCount(main') + 1]_vars

\* C17 witness: the first connection was closed and a second one opened, and the entry
\* of a selected identifier counted before is still there
C17_Witness ==
    /\ last.op = "toggle_connection"
    /\ can_interface.is_connected
    /\ Len(buses) = 2
    /\ buses[1] = "closed"
    /\ \E id \in selected_message_ids \cap DOMAIN message_metadata :
           /\ message_metadata[id].count >= 1
           /\ message_metadata[id].decoded_data.some

\* the join inside stop_receiving has returned before its timeout, for thread last.id
JoinedInTime ==
    /\ last.op \in {"stop_receiving", "disconnect", "toggle_connection"}
    /\ last.id # NoThread
    /\ ~last.flag

\* receiving is stopped and nothing is in flight: no reader is registered or running, no
\* emission is queued and no handler is running
Quiet ==
    /\ can_interface.receive_thread = NoThread
    /\ RunningReaders = {}
    /\ queue = << >>
    /\ main.pc = "idle"

SendMessageCalled == MainThreadStep /\ main.pc = "idle" /\ last'.op = "send_message"

\* C19: one send_message makes at most one bus.send call and returns True or False:
\* True exactly when that one call was made and did not raise, False when it raised,
\* and False with no bus.send call at all when is_connected is false or bus is None;
\* whatever the outcome, the session state is left as it was.
C19_SendOnceAndReport ==
    /\ [](last.op = "send_message" =>
            /\ last.id <= 1
            /\ last.result \in {"True", "False"}
            /\ last.result = "True" <=> (last.id = 1 /\ last.arg = "sent")
            /\ last.arg = "send_raises" => (last.id = 1 /\ last.result = "False")
            /\ send_message_refused(can_interface) => (last.id = 0 /\ last.result = "False"))
    /\ [][SendMessageCalled =>
            /\ can_interface' = can_interface
            /\ buses' = buses
            /\ threads' = threads
            /\ last'.flag = send_message_refused(can_interface)]_vars

\* C19 witness: a send on a connected session raised in bus.send, after one attempt,
\* while a reader is running
C19_Witness ==
    /\ last.op = "send_message"
    /\ last.arg = "send_raises"
    /\ last.id = 1
    /\ last.result = "False"
    /\ can_interface.is_connected
    /\ RunningReaders # {}

\* C20: whenever a reader thread is registered, is_connected is true and bus is not None.
C20_ReaderImpliesConnected ==
    can_interface.receive_thread # NoThread =>
        (can_interface.is_connected /\ can_interface.bus # NoBus)

\* the step in which a reader hands a frame to can_message_callback
HandsOver == \E f \in Frames : queue' = Append(queue, f)

\* the step in which on_can_message_received is started for the oldest emission
TakesOldest ==
    /\ queue # << >>
    /\ queue' = Tail(queue)
    /\ main.pc = "idle"
    /\ last'.op \in {"dropped", "handling"}
    /\ last'.id = Head(queue)[1]
    /\ main'.pc = "decode" => (main'.id = Head(queue)[1] /\ main'.data = Head(queue)[2])

\* decoded_data of every entry that stays is what it was
LatestUnchanged ==
    \A id \in DOMAIN message_metadata :
        /\ id \in DOMAIN message_metadata'
        /\ message_metadata'[id].decoded_data = message_metadata[id].decoded_data

\* C21: the emissions wait in one FIFO queue: it changes only by a frame appended at its
\* end or by the handler taking its head, so every frame handed over is handled once
\* and in the order of reception; and decoded_data of an identifier is the decoder's
\* result for the last handled frame of that identifier that the decoder decoded: a
\* handler run that decoded its frame leaves the result there, and nothing else
\* changes it.
C21_FifoOnceAndLatestDecode ==
    [][/\ queue' # queue => (HandsOver \/ TakesOldest)
       /\ (HandlerReturns /\ decode_message(db, main.id, main.data).some) =>
              message_metadata'[main.id].decoded_data = decode_message(db, main.id, main.data)
       /\ (HandlerReturns /\ ~decode_message(db, main.id, main.data).some) =>
              message_metadata'[main.id].decoded_data = PrevData(main)
       /\ ~HandlerReturns => LatestUnchanged]_vars

====
